---- MODULE Spec2Model ----
(***************************************************************************)
(* Model of rag_system/src/main.rs: the chunker load_pdf and the ingestion *)
(* part of main.                                                           *)
(*                                                                         *)
(* A text is a sequence of characters, each character a one-element        *)
(* string.  String::len() counts UTF-8 bytes, so every character carries   *)
(* its encoded width (ByteWidth).  The iterator returned by                *)
(* PdfFileLoader::read() is consumed lazily by the for loop of load_pdf:   *)
(* one loop iteration is one action, which draws the next element (a text  *)
(* blob or an error) and records it in `entries`.                          *)
(***************************************************************************)
EXTENDS Integers, Sequences, FiniteSets, TLC

\* ------------------------------------------------------------- bounds
MaxInputLen == 3
MaxEntries == 2
MaxChunkSize == 5

\* ------------------------------------------------------------- constants
\* let chunk_size = 2000 (main.rs:25)
DefaultChunkSize == 2000
\* .dynamic_context(4, index) (main.rs:112)
DynamicContextK == 4

VARIABLES
    chunk_size,          \* load_pdf: chunk_size of this run
    path,                \* load_pdf: the path argument
    glob,                \* the outcome of with_glob: "none", "ok" or "err"
    entries,             \* the elements the loader's iterator has yielded so far
    chunks,              \* load_pdf: chunks
    current_chunk,       \* load_pdf: current_chunk
    lp_pc,               \* load_pdf: position ("idle", "glob", "loop", "returned")
    ret,                 \* load_pdf: the returned Result
    main_pc,             \* main: position
    moores_law_chunks,   \* main: moores_law_chunks
    last_question_chunks,\* main: last_question_chunks
    load_status,         \* per source file: "pending", "ok" or "err"
    i,                   \* main: the enumerate() index of the running for loop
    builder,             \* main: the documents held by the EmbeddingsBuilder
    embed_calls,         \* number of calls made to the embedding service
    index,               \* main: the vector index (NoValue until built)
    rag_agent,           \* main: the chat agent (NoValue until built)
    embeddings,          \* main: the embeddings returned by builder.build()
    main_result          \* main: the Result main returns (NoValue while running)

vars == <<chunk_size, path, glob, entries, chunks, current_chunk, lp_pc, ret, main_pc,
          moores_law_chunks, last_question_chunks, load_status, i, builder,
          embed_calls, index, rag_agent, embeddings, main_result>>

lp_vars == <<path, glob, entries, chunks, current_chunk, lp_pc, ret>>
main_vars == <<main_pc, moores_law_chunks, last_question_chunks, load_status, i,
               builder, embed_calls, index, rag_agent, embeddings, main_result>>

NoValue == [kind |-> "none"]

\* ------------------------------------------------------------- characters
TwoByteChar == "e'"
Whitespace == {" ", "\n", "\t"}
Alphabet == {"a", TwoByteChar, " "}

\* char::is_whitespace, as used by split_whitespace and trim
IsWhitespace(c) == c \in Whitespace

\* the UTF-8 width of a character
ByteWidth(c) == IF c = TwoByteChar THEN 2 ELSE 1

\* str::len(): the number of bytes
RECURSIVE ByteLen(_)
ByteLen(s) == IF s = <<>> THEN 0 ELSE ByteWidth(Head(s)) + ByteLen(Tail(s))

\* str::split_whitespace(): the maximal runs of non-whitespace characters
RECURSIVE SplitFrom(_, _, _)
SplitFrom(s, k, cur) ==
    IF k > Len(s)
    THEN IF cur = <<>> THEN <<>> ELSE <<cur>>
    ELSE IF IsWhitespace(s[k])
         THEN IF cur = <<>>
              THEN SplitFrom(s, k + 1, <<>>)
              ELSE <<cur>> \o SplitFrom(s, k + 1, <<>>)
         ELSE SplitFrom(s, k + 1, Append(cur, s[k]))

split_whitespace(s) == SplitFrom(s, 1, <<>>)

\* str::trim(): leading and trailing whitespace removed
RECURSIVE TrimStart(_)
TrimStart(s) ==
    IF s # <<>> /\ IsWhitespace(Head(s)) THEN TrimStart(Tail(s)) ELSE s

RECURSIVE TrimEnd(_)
TrimEnd(s) ==
    IF s # <<>> /\ IsWhitespace(s[Len(s)])
    THEN TrimEnd(SubSeq(s, 1, Len(s) - 1))
    ELSE s

trim(s) == TrimEnd(TrimStart(s))

\* ------------------------------------------------------------- load_pdf
\* variant: the separating space is not counted
OverflowsNoSeparator(cur, word, cs) == ByteLen(cur) + ByteLen(word) > cs

\* variant: the length of the word is not counted
OverflowsNoWord(cur, word, cs) == ByteLen(cur) + 1 > cs

\* variant: the length of the accumulator is not counted
OverflowsWordOnly(cur, word, cs) == ByteLen(word) + 1 > cs

\* the overflow test of the word loop
Overflows(cur, word, cs) == ByteLen(cur) + ByteLen(word) + 1 > cs

\* variant: the chunk is pushed without trim()
PushChunkUntrimmed(cs, cur) == Append(cs, cur)

\* chunks.push(current_chunk.trim().to_string())
PushChunk(cs, cur) == Append(cs, trim(cur))

\* variant: the word that triggers a flush is not appended
PushWordElse(st, word, cs) ==
    IF Overflows(st.current_chunk, word, cs) /\ st.current_chunk # <<>>
    THEN [chunks |-> PushChunk(st.chunks, st.current_chunk), current_chunk |-> <<>>]
    ELSE [chunks |-> st.chunks, current_chunk |-> (st.current_chunk \o word) \o <<" ">>]

\* one iteration of `for word in words`, on st = [chunks, current_chunk]
PushWord(st, word, cs) ==
    LET flush == Overflows(st.current_chunk, word, cs) /\ st.current_chunk # <<>>
        c1 == IF flush THEN PushChunk(st.chunks, st.current_chunk) ELSE st.chunks
        a1 == IF flush THEN <<>> ELSE st.current_chunk
    IN  [chunks |-> c1, current_chunk |-> (a1 \o word) \o <<" ">>]

\* `for word in words { ... }`
RECURSIVE ProcessWords(_, _, _)
ProcessWords(st, words, cs) ==
    IF words = <<>> THEN st
    ELSE ProcessWords(PushWord(st, Head(words), cs), Tail(words), cs)

\* variant: the accumulator is flushed at the end of every blob
ProcessContentPerBlob(st, content, cs) ==
    LET st1 == ProcessWords(st, split_whitespace(content), cs)
    IN  [chunks |-> IF st1.current_chunk # <<>>
                    THEN PushChunk(st1.chunks, st1.current_chunk)
                    ELSE st1.chunks,
         current_chunk |-> <<>>]

\* the body of the entry loop for a successfully read blob
ProcessContent(st, content, cs) ==
    ProcessWords(st, split_whitespace(content), cs)

\* the "last chunk" flush after the entry loop
LastChunk(cs, cur) == IF cur # <<>> THEN PushChunk(cs, cur) ELSE cs

\* variant: an empty chunk list is returned as a success
FinishAcceptsEmpty(cs, p) == [kind |-> "Ok", chunks |-> cs]

\* the final `if chunks.is_empty() { bail!(..) } Ok(chunks)`
Finish(cs, p) ==
    IF cs = <<>>
    THEN [kind |-> "Err", error |-> "NoContent", path |-> p]
    ELSE [kind |-> "Ok", chunks |-> cs]

\* ------------------------------------------------------------- inputs
\* the elements of the loader's iterator
OkEntry(text) == [kind |-> "Ok", text |-> text]
ErrEntry == [kind |-> "Err", error |-> "PdfLoaderError"]

\* every text of at most n characters over Alphabet
ShortBlobs(n) == UNION {[1..m -> Alphabet] : m \in 0..n}

\* the texts of the documented scenarios
BlobABCDE == <<"a", " ", "b", " ", "c", " ", "d", " ", "e">>
BlobHelloWorld == <<"h", "e", "l", "l", "o", " ", "w", "o", "r", "l", "d">>
BlobFooBar == <<"f", "o", "o", " ", "b", "a", "r">>
BlobLongWord == <<"a", "b", "c", "d", "e", "f", "g", "h", "i", "j">>
BlobPadded == <<"\n", "a", "\t", " ", TwoByteChar, "\n">>
ScenarioBlobs == {BlobABCDE, BlobHelloWorld, BlobFooBar, BlobLongWord, BlobPadded}

\* the number of characters of the enumerated texts among the entries es
RECURSIVE CharsRead(_)
CharsRead(es) ==
    IF es = <<>> THEN 0
    ELSE (IF Head(es).kind = "Ok" /\ Head(es).text \notin ScenarioBlobs
          THEN Len(Head(es).text) ELSE 0) + CharsRead(Tail(es))

\* the texts the loader may yield next when load_pdf is run on its own: a
\* scenario text, or any text that keeps the enumerated input within
\* MaxInputLen characters
Blobs(es) == ShortBlobs(MaxInputLen - CharsRead(es)) \cup ScenarioBlobs

\* the texts the loader may yield inside a run of main, where two calls of
\* load_pdf follow each other: blank texts and texts of one to three passages
MainBlobs == {<<>>, <<" ">>, <<"a">>, <<"a", " ", "a">>, <<"a", "a", " ", "a">>}

\* load_pdf fixes chunk_size at DefaultChunkSize; a run is also made with every
\* small chunk_size, so that the overflow test fires on short texts
ChunkSizes == (1..MaxChunkSize) \cup {DefaultChunkSize}

Path01 == "documents/01.pdf"
Path02 == "documents/02.pdf"

\* ------------------------------------------------------------- load_pdf, as actions
\* let mut chunks = Vec::new(); let mut current_chunk = String::new();
EnterLoadPdf(p) ==
    /\ path' = p
    /\ glob' = "none"
    /\ entries' = <<>>
    /\ chunks' = <<>>
    /\ current_chunk' = <<>>
    /\ ret' = NoValue
    /\ lp_pc' = "glob"

\* PdfFileLoader::with_glob(..)? succeeds
WithGlobOk ==
    /\ lp_pc = "glob"
    /\ glob' = "ok"
    /\ lp_pc' = "loop"
    /\ UNCHANGED <<chunk_size, path, entries, chunks, current_chunk, ret, main_vars>>

\* PdfFileLoader::with_glob(..)? fails: the error is returned
WithGlobErr ==
    /\ lp_pc = "glob"
    /\ glob' = "err"
    /\ ret' = [kind |-> "Err", error |-> "GlobError"]
    /\ lp_pc' = "returned"
    /\ UNCHANGED <<chunk_size, path, entries, chunks, current_chunk, main_vars>>

\* one iteration of the entry loop whose element is Ok(content)
ReadEntryOk ==
    /\ lp_pc = "loop"
    /\ Len(entries) < MaxEntries
    /\ \E content \in (IF main_pc = "harness" THEN Blobs(entries) ELSE MainBlobs) :
          LET st == ProcessContent([chunks |-> chunks, current_chunk |-> current_chunk],
                                   content, chunk_size)
          IN  /\ entries' = Append(entries, OkEntry(content))
              /\ chunks' = st.chunks
              /\ current_chunk' = st.current_chunk
    /\ UNCHANGED <<chunk_size, path, glob, lp_pc, ret, main_vars>>

\* variant: an unreadable entry is skipped and the loop goes on
ReadEntryErrSkipped ==
    /\ lp_pc = "loop"
    /\ Len(entries) < MaxEntries
    /\ entries' = Append(entries, ErrEntry)
    /\ UNCHANGED <<chunk_size, path, glob, chunks, current_chunk, lp_pc, ret, main_vars>>

\* one iteration of the entry loop whose element is Err(e): `entry?` returns it
ReadEntryErr ==
    /\ lp_pc = "loop"
    /\ Len(entries) < MaxEntries
    /\ entries' = Append(entries, ErrEntry)
    /\ ret' = [kind |-> "Err", error |-> ErrEntry.error]
    /\ lp_pc' = "returned"
    /\ UNCHANGED <<chunk_size, path, glob, chunks, current_chunk, main_vars>>

\* the iterator is exhausted: last chunk, emptiness check, return
EndOfEntries ==
    /\ lp_pc = "loop"
    /\ chunks' = LastChunk(chunks, current_chunk)
    /\ ret' = Finish(chunks', path)
    /\ lp_pc' = "returned"
    /\ UNCHANGED <<chunk_size, path, glob, entries, current_chunk, main_vars>>

LoadPdfStep == WithGlobOk \/ WithGlobErr \/ ReadEntryOk \/ ReadEntryErr \/ EndOfEntries

\* ------------------------------------------------------------- main
Digit(d) == <<"0", "1", "2", "3", "4", "5", "6", "7", "8", "9">>[d + 1]

\* the Display form of an integer
RECURSIVE Decimal(_)
Decimal(n) == IF n < 10 THEN <<Digit(n)>> ELSE Append(Decimal(n \div 10), Digit(n % 10))

\* format!("<label>_{}", n)
FormatId(label, n) == <<label, "_">> \o Decimal(n)

\* variant: the index in the id is counted from one
DocumentFromOne(label, n, chunk) == [id |-> FormatId(label, n + 1), content |-> chunk]

\* Document { id: format!(..), content: chunk }
Document(label, n, chunk) == [id |-> FormatId(label, n), content |-> chunk]

\* dotenv, openai::Client::from_env(), current_dir()?
Start ==
    /\ main_pc = "start"
    /\ \/ /\ main_pc' = "load1"
          /\ UNCHANGED main_result
       \/ /\ main_pc' = "failed"
          /\ main_result' = [kind |-> "Err", error |-> "current_dir"]
       \/ /\ main_pc' = "failed"
          /\ main_result' = [kind |-> "Panic", error |-> "OPENAI_API_KEY not set"]
    /\ UNCHANGED <<chunk_size, lp_vars, moores_law_chunks, last_question_chunks,
                   load_status, i, builder, embed_calls, index, rag_agent, embeddings>>

\* load_pdf(documents_dir.join("01.pdf")) / load_pdf(documents_dir.join("02.pdf"))
CallLoadPdf ==
    /\ main_pc \in {"load1", "load2"}
    /\ lp_pc = "idle"
    /\ EnterLoadPdf(IF main_pc = "load1" THEN Path01 ELSE Path02)
    /\ UNCHANGED <<chunk_size, main_vars>>

\* load_pdf returned Ok: the chunks are bound; after the second call the
\* embedding model and the empty builder are created
LoadSucceeded ==
    /\ main_pc \in {"load1", "load2"}
    /\ lp_pc = "returned"
    /\ ret.kind = "Ok"
    /\ lp_pc' = "idle"
    /\ IF main_pc = "load1"
       THEN /\ moores_law_chunks' = ret.chunks
            /\ load_status' = [load_status EXCEPT ![1] = "ok"]
            /\ main_pc' = "load2"
            /\ UNCHANGED <<last_question_chunks, builder, i>>
       ELSE /\ last_question_chunks' = ret.chunks
            /\ load_status' = [load_status EXCEPT ![2] = "ok"]
            /\ main_pc' = "docs1"
            /\ builder' = <<>>
            /\ i' = 0
            /\ UNCHANGED moores_law_chunks
    /\ UNCHANGED <<chunk_size, path, glob, entries, chunks, current_chunk, ret,
                   embed_calls, index, rag_agent, embeddings, main_result>>

\* variant: a file that fails to load is logged and left out, the run goes on
LoadFailedSkipsFile ==
    /\ main_pc \in {"load1", "load2"}
    /\ lp_pc = "returned"
    /\ ret.kind = "Err"
    /\ lp_pc' = "idle"
    /\ load_status' = [load_status EXCEPT ![IF main_pc = "load1" THEN 1 ELSE 2] = "err"]
    /\ IF main_pc = "load1"
       THEN /\ main_pc' = "load2"
            /\ UNCHANGED <<builder, i>>
       ELSE /\ main_pc' = "docs1"
            /\ builder' = <<>>
            /\ i' = 0
    /\ UNCHANGED <<chunk_size, path, glob, entries, chunks, current_chunk, ret,
                   moores_law_chunks, last_question_chunks, embed_calls,
                   index, rag_agent, embeddings, main_result>>

\* load_pdf returned Err: .context("Failed to load 0x.pdf")? returns from main
LoadFailed ==
    /\ main_pc \in {"load1", "load2"}
    /\ lp_pc = "returned"
    /\ ret.kind = "Err"
    /\ lp_pc' = "idle"
    /\ load_status' = [load_status EXCEPT ![IF main_pc = "load1" THEN 1 ELSE 2] = "err"]
    /\ main_result' = [kind |-> "Err",
                       context |-> IF main_pc = "load1" THEN "Failed to load 01.pdf"
                                                         ELSE "Failed to load 02.pdf",
                       source |-> ret]
    /\ main_pc' = "failed"
    /\ UNCHANGED <<chunk_size, path, glob, entries, chunks, current_chunk, ret,
                   moores_law_chunks, last_question_chunks, i, builder, embed_calls,
                   index, rag_agent, embeddings>>

\* one iteration of `for (i, chunk) in <src>.into_iter().enumerate()`, or its exit
DocumentLoop(pc, label, src, next_pc) ==
    /\ main_pc = pc
    /\ IF i < Len(src)
       THEN \/ /\ builder' = Append(builder, Document(label, i, src[i + 1]))
               /\ i' = i + 1
               /\ UNCHANGED <<main_pc, main_result>>
            \/ /\ main_pc' = "failed"
               /\ main_result' = [kind |-> "Err", error |-> "EmbedError"]
               /\ UNCHANGED <<builder, i>>
       ELSE /\ main_pc' = next_pc
            /\ i' = 0
            /\ UNCHANGED <<builder, main_result>>
    /\ UNCHANGED <<chunk_size, lp_vars, moores_law_chunks, last_question_chunks,
                   load_status, embed_calls, index, rag_agent, embeddings>>

AddMooresLaw == DocumentLoop("docs1", "moores_law", moores_law_chunks, "docs2")

AddLastQuestion == DocumentLoop("docs2", "last_question", last_question_chunks, "build")

\* builder.build().await?
Build ==
    /\ main_pc = "build"
    /\ embed_calls' = embed_calls + 1
    /\ \/ /\ embeddings' = [k \in 1..Len(builder) |->
                               [document |-> builder[k], vector |-> <<"vec", k>>]]
          /\ main_pc' = "index"
          /\ UNCHANGED main_result
       \/ /\ main_pc' = "failed"
          /\ main_result' = [kind |-> "Err", error |-> "EmbeddingError"]
          /\ UNCHANGED embeddings
    /\ UNCHANGED <<chunk_size, lp_vars, moores_law_chunks, last_question_chunks,
                   load_status, i, builder, index, rag_agent>>

\* InMemoryVectorStore::from_documents(embeddings); vector_store.index(model)
CreateIndex ==
    /\ main_pc = "index"
    /\ index' = [kind |-> "index", documents |-> embeddings]
    /\ main_pc' = "agent"
    /\ UNCHANGED <<chunk_size, lp_vars, moores_law_chunks, last_question_chunks,
                   load_status, i, builder, embed_calls, rag_agent, embeddings,
                   main_result>>

\* openai_client.agent("gpt-4").preamble(..).dynamic_context(4, index).build()
BuildAgent ==
    /\ main_pc = "agent"
    /\ rag_agent' = [kind |-> "agent", model |-> "gpt-4", k |-> DynamicContextK]
    /\ main_pc' = "cli"
    /\ UNCHANGED <<chunk_size, lp_vars, moores_law_chunks, last_question_chunks,
                   load_status, i, builder, embed_calls, index, embeddings,
                   main_result>>

\* rig::cli_chatbot::cli_chatbot(rag_agent).await?; Ok(())
CliChatbot ==
    /\ main_pc = "cli"
    /\ \/ /\ main_pc' = "done"
          /\ main_result' = [kind |-> "Ok"]
       \/ /\ main_pc' = "failed"
          /\ main_result' = [kind |-> "Err", error |-> "PromptError"]
    /\ UNCHANGED <<chunk_size, lp_vars, moores_law_chunks, last_question_chunks,
                   load_status, i, builder, embed_calls, index, rag_agent, embeddings>>

\* ------------------------------------------------------------- specifications
MainIdle ==
    /\ moores_law_chunks = <<>>
    /\ last_question_chunks = <<>>
    /\ load_status = <<"pending", "pending">>
    /\ i = 0
    /\ builder = <<>>
    /\ embed_calls = 0
    /\ index = NoValue
    /\ rag_agent = NoValue
    /\ embeddings = <<>>
    /\ main_result = NoValue

\* a run of main
Init ==
    /\ chunk_size \in ChunkSizes
    /\ path = Path01
    /\ glob = "none"
    /\ entries = <<>>
    /\ chunks = <<>>
    /\ current_chunk = <<>>
    /\ lp_pc = "idle"
    /\ ret = NoValue
    /\ main_pc = "start"
    /\ MainIdle

Next ==
    \/ Start
    \/ CallLoadPdf
    \/ LoadPdfStep
    \/ LoadSucceeded
    \/ LoadFailed
    \/ AddMooresLaw
    \/ AddLastQuestion
    \/ Build
    \/ CreateIndex
    \/ BuildAgent
    \/ CliChatbot

Spec == Init /\ [][Next]_vars

\* one call of load_pdf on its own, entered with fresh locals
InitChunker ==
    /\ chunk_size \in ChunkSizes
    /\ path = Path01
    /\ glob = "none"
    /\ entries = <<>>
    /\ chunks = <<>>
    /\ current_chunk = <<>>
    /\ lp_pc = "glob"
    /\ ret = NoValue
    /\ main_pc = "harness"
    /\ MainIdle

NextChunker == LoadPdfStep

SpecChunker == InitChunker /\ [][NextChunker]_vars

\* ------------------------------------------------------------- properties
\* the whitespace-delimited words of a sequence of texts, in order
RECURSIVE WordsOfTexts(_)
WordsOfTexts(ts) ==
    IF ts = <<>> THEN <<>> ELSE split_whitespace(Head(ts)) \o WordsOfTexts(Tail(ts))

\* the texts of the blobs read so far
RECURSIVE TextsOf(_)
TextsOf(es) ==
    IF es = <<>> THEN <<>>
    ELSE (IF Head(es).kind = "Ok" THEN <<Head(es).text>> ELSE <<>>) \o TextsOf(Tail(es))

InputWords == WordsOfTexts(TextsOf(entries))

NoErrEntry == \A k \in 1..Len(entries) : entries[k].kind = "Ok"

\* words joined by single spaces
RECURSIVE Join(_)
Join(ws) ==
    IF ws = <<>> THEN <<>>
    ELSE IF Len(ws) = 1 THEN ws[1]
    ELSE (Head(ws) \o <<" ">>) \o Join(Tail(ws))

\* greedy packing of a word sequence, the open passage kept as a list of words:
\* the passage is closed before word w exactly when it is non-empty and
\* its text, a space, w and the trailing space take more than cs bytes
RECURSIVE Pack(_, _, _)
Pack(run, rest, cs) ==
    IF rest = <<>>
    THEN IF run = <<>> THEN <<>> ELSE <<Join(run)>>
    ELSE IF run # <<>> /\ ByteLen(Join(run)) + 1 + ByteLen(Head(rest)) + 1 > cs
         THEN <<Join(run)>> \o Pack(<<Head(rest)>>, Tail(rest), cs)
         ELSE Pack(Append(run, Head(rest)), Tail(rest), cs)

Returned == lp_pc = "returned"
ReturnedOk == lp_pc = "returned" /\ ret.kind = "Ok"

\* C1: every returned passage has at most chunk_size characters, unless it is
\* a single word that is itself longer than chunk_size.
C1_PassageBound ==
    ReturnedOk =>
        \A k \in 1..Len(ret.chunks) :
            LET p == ret.chunks[k]
                ws == split_whitespace(p)
            IN  \/ Len(p) <= chunk_size
                \/ Len(ws) = 1 /\ Len(ws[1]) > chunk_size

\* a result holding a passage of several words and an oversized passage
C1_Witness ==
    /\ ReturnedOk
    /\ \E k \in 1..Len(ret.chunks) : Len(split_whitespace(ret.chunks[k])) >= 2
    /\ \E k \in 1..Len(ret.chunks) : Len(ret.chunks[k]) > chunk_size

\* C2: the words of the returned passages, in passage order, are exactly the
\* words of the input, in input order.
C2_WordsPreserved ==
    ReturnedOk => WordsOfTexts(ret.chunks) = InputWords

\* several passages made from at least three words read from two blobs
C2_Witness ==
    /\ ReturnedOk
    /\ Len(ret.chunks) >= 2
    /\ Len(InputWords) >= 3
    /\ Len(entries) = 2
    /\ split_whitespace(entries[1].text) # <<>>
    /\ split_whitespace(entries[2].text) # <<>>

\* the text "a b c d e" chunked with chunk_size 5
ScenarioABCDE ==
    /\ ReturnedOk
    /\ entries = <<OkEntry(BlobABCDE)>>
    /\ chunk_size = 5

\* C3 as stated: a passage is closed before the next word only when the passage,
\* one space and that word are longer than chunk_size, and "a b c d e" with
\* chunk_size 5 gives "a b c", "d e".
C3_Original ==
    ReturnedOk =>
        /\ \A k \in 1..(Len(ret.chunks) - 1) :
              Len(ret.chunks[k]) + 1 + Len(split_whitespace(ret.chunks[k + 1])[1])
                  > chunk_size
        /\ ScenarioABCDE =>
              ret.chunks = << <<"a", " ", "b", " ", "c">>, <<"d", " ", "e">> >>

\* C3 amended: every passage is its words joined by single spaces; it is closed
\* before the next word only when the passage, one space, that word and the
\* trailing space the accumulator keeps take more than chunk_size bytes; a word
\* is added to an open passage whenever they do not; "a b c d e" with
\* chunk_size 5 gives "a b", "c d", "e".
C3_GreedyPacking ==
    ReturnedOk =>
        /\ \A k \in 1..Len(ret.chunks) :
              ret.chunks[k] = Join(split_whitespace(ret.chunks[k]))
        /\ \A k \in 1..(Len(ret.chunks) - 1) :
              ByteLen(ret.chunks[k]) + 1
                  + ByteLen(split_whitespace(ret.chunks[k + 1])[1]) + 1 > chunk_size
        /\ \A k \in 1..Len(ret.chunks) :
              LET ws == split_whitespace(ret.chunks[k])
              IN  \A j \in 2..Len(ws) :
                      ByteLen(Join(SubSeq(ws, 1, j - 1))) + 1 + ByteLen(ws[j]) + 1
                          <= chunk_size
        /\ ScenarioABCDE =>
              ret.chunks = << <<"a", " ", "b">>, <<"c", " ", "d">>, <<"e">> >>

C3_Witness == ScenarioABCDE

\* C4: without a loader error, an input without any word gives the no-content
\* error naming the path, never a success; an input with a word gives a success
\* with at least one passage.
C4_NoContent ==
    Returned =>
        /\ (glob = "ok" /\ NoErrEntry /\ InputWords = <<>>) =>
              ret = [kind |-> "Err", error |-> "NoContent", path |-> path]
        /\ (glob = "ok" /\ NoErrEntry /\ InputWords # <<>>) =>
              ret.kind = "Ok" /\ Len(ret.chunks) >= 1
        /\ ret.kind = "Ok" => ret.chunks # <<>>

\* two blobs were read, an empty one and one of whitespace only
C4_Witness ==
    /\ Returned
    /\ ret.kind = "Err"
    /\ ret.error = "NoContent"
    /\ Len(entries) = 2
    /\ \E k \in 1..2 : entries[k].text = <<>>
    /\ \E k \in 1..2 : entries[k].text # <<>>

\* C5: every returned passage is non-empty and begins and ends with a
\* non-whitespace character.
C5_Trimmed ==
    ReturnedOk =>
        \A k \in 1..Len(ret.chunks) :
            LET p == ret.chunks[k]
            IN  /\ p # <<>>
                /\ ~IsWhitespace(p[1])
                /\ ~IsWhitespace(p[Len(p)])

\* passages made from a blob that begins and ends with whitespace
C5_Witness ==
    /\ ReturnedOk
    /\ \E k \in 1..Len(entries) :
          LET t == entries[k].text
          IN  /\ Len(t) >= 3
              /\ IsWhitespace(t[1])
              /\ IsWhitespace(t[Len(t)])

\* C6: a word longer than chunk_size is a passage of its own, whole, whatever
\* precedes or follows it; one word of length 10 with chunk_size 5 is returned
\* as the single passage.
C6_OversizedWordAlone ==
    ReturnedOk =>
        /\ \A k \in 1..Len(ret.chunks) :
              LET ws == split_whitespace(ret.chunks[k])
              IN  \A j \in 1..Len(ws) :
                      ByteLen(ws[j]) > chunk_size => ret.chunks[k] = ws[j]
        /\ \A j \in 1..Len(InputWords) :
              Len(InputWords[j]) > chunk_size =>
                  \E k \in 1..Len(ret.chunks) : ret.chunks[k] = InputWords[j]
        /\ (entries = <<OkEntry(BlobLongWord)>> /\ chunk_size = 5) =>
              ret.chunks = <<BlobLongWord>>

\* an oversized word with a passage before it and a passage after it
C6_Witness ==
    /\ ReturnedOk
    /\ \E k \in 2..(Len(ret.chunks) - 1) : Len(ret.chunks[k]) > chunk_size

\* the blobs "hello world" and "foo bar" read by one call with chunk_size 2000
ScenarioTwoBlobs ==
    /\ ReturnedOk
    /\ entries = <<OkEntry(BlobHelloWorld), OkEntry(BlobFooBar)>>
    /\ chunk_size = DefaultChunkSize

\* C7 as stated: no passage holds words of two blobs (the words of every
\* prefix of the blobs are the words of a prefix of the passages), and the two
\* blobs give "hello world", "foo bar".
C7_Original ==
    ReturnedOk =>
        /\ \A n \in 1..Len(entries) :
              \E m \in 0..Len(ret.chunks) :
                  WordsOfTexts(SubSeq(ret.chunks, 1, m))
                      = WordsOfTexts(TextsOf(SubSeq(entries, 1, n)))
        /\ ScenarioTwoBlobs => ret.chunks = <<BlobHelloWorld, BlobFooBar>>

\* C7 amended: the accumulator is carried from one blob to the next, so the
\* passages of a call are the greedy packing of the words of all its blobs
\* taken as one sequence, and a passage may hold words of adjacent blobs; the
\* two blobs give the single passage "hello world foo bar".
C7_BlobsShareAccumulator ==
    ReturnedOk =>
        /\ ret.chunks = Pack(<<>>, InputWords, chunk_size)
        /\ ScenarioTwoBlobs =>
              ret.chunks = <<(BlobHelloWorld \o <<" ">>) \o BlobFooBar>>

C7_Witness == ScenarioTwoBlobs

\* C10: when the loader yields an error, at whatever position, the call returns
\* that error and no passage, and reads nothing more.
C10_EntryErrorReturned ==
    \A k \in 1..Len(entries) :
        entries[k].kind = "Err" =>
            /\ k = Len(entries)
            /\ lp_pc = "returned"
            /\ ret = [kind |-> "Err", error |-> entries[k].error]

\* the error came second, after a passage had been completed
C10_Witness ==
    /\ Returned
    /\ Len(entries) = 2
    /\ entries[2].kind = "Err"
    /\ chunks # <<>>
    /\ ret.kind = "Err"

\* the id <label>_<n>, for n below 100
ExpectedId(label, n) ==
    <<label, "_">> \o (IF n < 10 THEN <<ToString(n)>>
                                 ELSE <<ToString(n \div 10), ToString(n % 10)>>)

\* the documents of one source: the k-th passage under the id <label>_<k-1>
ExpectedDocs(label, src) ==
    [k \in 1..Len(src) |-> [id |-> ExpectedId(label, k - 1), content |-> src[k]]]

ExpectedBuilder ==
    ExpectedDocs("moores_law", moores_law_chunks)
        \o ExpectedDocs("last_question", last_question_chunks)

IsPrefix(s, t) == Len(s) <= Len(t) /\ s = SubSeq(t, 1, Len(s))

\* C8: the documents given to the builder are, for each source, its passages in
\* order under the ids <label>_0 .. <label>_(N-1), the first source before the
\* second; the builder holds exactly these when the embeddings are built.
C8_DocumentIds ==
    /\ IsPrefix(builder, ExpectedBuilder)
    /\ main_pc \in {"build", "index", "agent", "cli", "done"} => builder = ExpectedBuilder
    /\ embed_calls > 0 => builder = ExpectedBuilder

\* the embeddings were requested for two sources of at least two passages each
C8_Witness ==
    /\ embed_calls > 0
    /\ Len(moores_law_chunks) >= 2
    /\ Len(last_question_chunks) >= 2
    /\ Len(builder) = Len(moores_law_chunks) + Len(last_question_chunks)

\* C9: when load_pdf fails for a source file, main returns an error naming that
\* file, and no document was added, no embedding requested, no index and no
\* agent built; documents and embeddings exist only after both files loaded.
C9_LoadFailureAborts ==
    /\ \A f \in 1..2 :
          load_status[f] = "err" =>
              /\ main_pc = "failed"
              /\ main_result.kind = "Err"
              /\ main_result.context = (IF f = 1 THEN "Failed to load 01.pdf"
                                                ELSE "Failed to load 02.pdf")
              /\ main_result.source = ret
              /\ builder = <<>>
              /\ embed_calls = 0
              /\ embeddings = <<>>
              /\ index = NoValue
              /\ rag_agent = NoValue
    /\ (builder # <<>> \/ embed_calls > 0 \/ embeddings # <<>>
            \/ index # NoValue \/ rag_agent # NoValue) =>
          load_status = <<"ok", "ok">>

\* the first file was chunked, the second failed after a passage was completed
C9_Witness ==
    /\ load_status = <<"ok", "err">>
    /\ moores_law_chunks # <<>>
    /\ chunks # <<>>
    /\ main_pc = "failed"

====
